---- MODULE Spec2Model ----
(***************************************************************************)
(* A model of supi-core's Query singleton (src/singletons/query/index.js): *)
(* the connection pool as Query.raw and Query.getTransaction use it, the   *)
(* chunked transactional Query.batchUpdate, the table-definition cache of  *)
(* Query.getDefinition / invalidateDefinition, the life of the instance    *)
(* (Query.singleton, destroy), and the synchronous converters              *)
(* (escapeString, convertToSQL, parseFormatSymbol) with isTablePresent.    *)
(*                                                                         *)
(* Every async method is cut at its awaits: one action per run of code     *)
(* between two suspension points.  The database driver is the environment: *)
(* each connection executes the commands queued on it in order, and each   *)
(* command ends ok or err.                                                 *)
(***************************************************************************)
EXTENDS Integers, Sequences, FiniteSets, TLC

\* ------------------------------------------------------------------ bounds

\* const updateBatchLimit = 1000;
updateBatchLimit == 1000

\* The largest connectionLimit the pool is configured with (MARIA_CONNECTION_LIMIT).
MaxConnections == 3

\* Concurrent callers of Query.raw.
NumRawCallers == 2

\* The input of batchUpdate holds up to this many full chunks, plus a remainder.
MaxFullChunks == 2

\* Remainders of the row count modulo the chunk size that the model tries.
Remainders == {0, 1, 500}

RowCounts == {q * updateBatchLimit + r : q \in 0..MaxFullChunks, r \in Remainders}

\* Concurrent callers of Query.getDefinition, and the calls they make in all.
NumDefCallers == 1

MaxDefCalls == 2

\* The (database, table) pairs the callers ask for: two tables of one database
\* and a table of another.
Databases == {"data", "chat"}

Tables == {"Users", "Logs"}

Keys == {<<"data", "Users">>, <<"data", "Logs">>, <<"chat", "Users">>}

\* ------------------------------------------------------------------ callers

RawCallers == {<<"raw", k>> : k \in 1..NumRawCallers}

BatchCaller == <<"batchUpdate", 1>>

DefCallers == {<<"getDefinition", k>> : k \in 1..NumDefCallers}

Procs == RawCallers \cup {BatchCaller} \cup DefCallers

Conns == 1..MaxConnections

NoConn == 0

Min(a, b) == IF a <= b THEN a ELSE b

CeilDiv(a, b) == (a + b - 1) \div b

\* The statements executed before the failing one when a text of m statements fails.
FailPoints(m) == IF m = 0 THEN {0} ELSE {0, m - 1}

\* The sets of rows whose rendering fails that the model tries for n input rows.
RenderFailChoices(n) == {{}} \cup (IF n = 0 THEN {} ELSE {{1}, {n}})

VARIABLES
    connectionLimit,  \* the pool's connectionLimit
    idle,             \* the connections the pool can hand out
    held,             \* held[p]: the connections p has acquired and not released
    queue,            \* queue[c]: the commands sent on connection c, not yet answered
    inTx,             \* inTx[c]: the server has a transaction open on c
    pc,               \* pc[p]: where caller p is suspended
    connector,        \* connector[p]: p's local `connector` / `transaction`
    reply,            \* reply[p]: the state of the promise p awaits or returns
    acquired,         \* acquired[p]: getConnection() calls of p's call that resolved
    released,         \* released[p]: connector.end() calls of p's call
    data,             \* batchUpdate: the number of input rows
    renderFails,      \* batchUpdate: the rows whose ru.toSQL() / callback throws
    i,                \* batchUpdate: the loop variable
    chunks,           \* batchUpdate: one record per loop iteration entered
    result,           \* batchUpdate: the value the call resolved with
    tableDefinitions, \* this.tableDefinitions: database -> table -> definition
    calls,            \* the getDefinition calls made so far
    args,             \* args[p]: the (database, table) of p's call
    obj,              \* obj[p]: the local `obj` of p's call
    defResult,        \* defResult[p]: what p's last call returned
    issued,           \* issued[p]: p's call issued an introspection query
    prior,            \* prior[p]: lastEvent of the key when p's call started
    lastEvent,        \* lastEvent[key]: the last definition stored, or Invalidated
    overtaken,        \* the key that invalidateDefinition was called for after the
                      \* query of a suspended call for it, until a call for it starts
    configured,       \* process.env holds MARIA_USER, MARIA_PASSWORD and a host or socket
    module,           \* Query.module: the instance singleton() keeps, or NoModule
    created,          \* the Query instances, and pools, constructed so far
    pool,             \* this.pool of the instance
    sb,               \* sb[p]: what p's last Query.singleton() call returned
    op,               \* the method of the last synchronous call, or a call under way
    input,            \* the arguments of that call
    output,           \* what the call returned or threw
    newsModule,       \* ExtraNews.module: the instance singleton() keeps, or NoModule
    newsCreated,      \* the ExtraNews instances constructed so far
    newsPc,           \* newsPc[p]: where p's ExtraNews.singleton() call is suspended
    newsInstance,     \* newsInstance[p]: the instance p's call constructs
    newsResult        \* newsResult[p]: the instance p's call resolved with

poolVars == <<connectionLimit, idle, held, queue, inTx, pc, connector, reply,
              acquired, released>>

batchVars == <<data, renderFails, i, chunks, result>>

cacheVars == <<tableDefinitions, calls, args, obj, defResult, issued, prior,
               lastEvent, overtaken>>

lifeVars == <<configured, module, created, pool, sb>>

callVars == <<op, input, output>>

newsVars == <<newsModule, newsCreated, newsPc, newsInstance, newsResult>>

vars == <<poolVars, batchVars, cacheVars, lifeVars, callVars, newsVars>>

\* ------------------------------------------------------------------ driver

\* A command sent on a connection: connector.query / beginTransaction / commit /
\* rollback.  `awaited` says whether the caller holds the command's promise.
Command(kind, owner, awaited) == [kind |-> kind, owner |-> owner, awaited |-> awaited]

Send(c, cmd) == queue' = [queue EXCEPT ![c] = Append(@, cmd)]

\* this.pool.getConnection(): suspends until the pool has an idle connection.
\* The connections it may resolve with.  Idle connections in the
\* same state are interchangeable, and of those the lowest-numbered stands for all.
Idle ==
    {c \in idle : \A d \in idle : d < c => <<queue[d], inTx[d]>> # <<queue[c], inTx[c]>>}

Acquire(p, c) ==
    /\ c \in Idle
    /\ idle' = idle \ {c}
    /\ held' = [held EXCEPT ![p] = @ \cup {c}]
    /\ acquired' = [acquired EXCEPT ![p] = @ + 1]

\* connector.end() of a pooled connection: the connection goes back to the pool.
Release(p, c) ==
    /\ idle' = idle \cup {c}
    /\ held' = [held EXCEPT ![p] = @ \ {c}]
    /\ released' = [released EXCEPT ![p] = @ + 1]

\* ------------------------------------------------------------------ Query.raw

\* raw, lines 77-84: getConnection() resolves, the statement is sent (its promise
\* kept in `result`, not awaited) and connector.end() is called and awaited.
RawGetConnection(p) ==
    /\ pc[p] = "raw"
    /\ \E c \in Idle :
        /\ Acquire(p, c)
        /\ connector' = [connector EXCEPT ![p] = c]
        /\ Send(c, Command("query", p, TRUE))
    /\ reply' = [reply EXCEPT ![p] = "pending"]
    /\ pc' = [pc EXCEPT ![p] = "raw_end"]
    /\ UNCHANGED <<connectionLimit, inTx, released, batchVars, cacheVars, lifeVars, callVars, newsVars>>

\* A raw() that never gives its connection back.
RawEndLeaks(p) ==
    /\ pc[p] = "raw_end"
    /\ pc' = [pc EXCEPT ![p] = "raw_return"]
    /\ UNCHANGED <<connectionLimit, idle, held, queue, inTx, connector, reply,
                   acquired, released, batchVars, cacheVars, lifeVars, callVars, newsVars>>

\* raw, line 84: `await connector.end()` resolves.  Nothing in raw orders it
\* after the statement sent at line 80, whose promise is awaited only by the
\* return at line 86.
RawEnd(p) ==
    /\ pc[p] = "raw_end"
    /\ Release(p, connector[p])
    /\ pc' = [pc EXCEPT ![p] = "raw_return"]
    /\ UNCHANGED <<connectionLimit, queue, inTx, connector, reply, acquired,
                   batchVars, cacheVars, lifeVars, callVars, newsVars>>

\* raw, line 86: `return result`: the call settles as the statement's promise does.
RawReturn(p) ==
    /\ pc[p] = "raw_return"
    /\ reply[p] \in {"ok", "err"}
    /\ pc' = [pc EXCEPT ![p] = IF reply[p] = "ok" THEN "resolved" ELSE "rejected"]
    /\ UNCHANGED <<connectionLimit, idle, held, queue, inTx, connector, reply,
                   acquired, released, batchVars, cacheVars, lifeVars, callVars, newsVars>>

\* ------------------------------------------------------------------ the driver answers

CurrentChunk == Len(chunks)

\* The driver answers the oldest command queued on connection c.  A command of
\* batchUpdate acts on the transaction of the chunk being executed.
DriverAnswer(c, outcome) ==
    /\ queue[c] # <<>>
    /\ LET cmd == Head(queue[c])
           k == CurrentChunk
       IN  /\ queue' = [queue EXCEPT ![c] = Tail(@)]
           /\ reply' = IF cmd.awaited THEN [reply EXCEPT ![cmd.owner] = outcome] ELSE reply
           /\ IF cmd.owner # BatchCaller
                 THEN UNCHANGED <<inTx, chunks>>
              ELSE CASE cmd.kind = "begin" ->
                        /\ inTx' = [inTx EXCEPT ![c] = (outcome = "ok") \/ @]
                        /\ chunks' = [chunks EXCEPT ![k].begun = outcome]
                     [] cmd.kind = "query" ->
                        /\ UNCHANGED inTx
                        /\ IF outcome = "ok"
                              THEN chunks' = [chunks EXCEPT ![k].executed = chunks[k].size]
                              ELSE \E e \in FailPoints(chunks[k].size) :
                                      chunks' = [chunks EXCEPT ![k].executed = e]
                     [] cmd.kind = "commit" ->
                        /\ inTx' = [inTx EXCEPT ![c] = IF outcome = "ok" THEN FALSE ELSE @]
                        /\ chunks' = IF outcome = "ok"
                                        THEN [chunks EXCEPT ![k].outcome = "committed"]
                                        ELSE chunks
                     [] cmd.kind = "rollback" ->
                        /\ inTx' = [inTx EXCEPT ![c] = IF outcome = "ok" THEN FALSE ELSE @]
                        /\ chunks' = IF outcome = "ok"
                                        THEN [chunks EXCEPT ![k].outcome = "rolledback"]
                                        ELSE chunks
    /\ UNCHANGED <<connectionLimit, idle, held, pc, connector, acquired, released,
                   data, renderFails, i, result,
                   cacheVars, lifeVars, callVars, newsVars>>

\* ------------------------------------------------------------------ Query.batchUpdate

\* What a call resolved with: nothing yet, or the value of a function that
\* returns without a return statement.
NoResult == [kind |-> "pending"]

Undefined == [kind |-> "undefined"]

\* queries: one rendered statement per input row, in the order of data
\* (Promise.all keeps the order of data.map).  Statement k is row k's.
Queries == [k \in 1..data |-> k]

\* A slice that always starts at the first element.
SliceFromStart(s, a, b) == SubSeq(s, 1, Min(b - a, Len(s)))

\* Array.prototype.slice(a, b) on the 0-based array s.
Slice(s, a, b) == SubSeq(s, a + 1, Min(b, Len(s)))

\* What is recorded of the text sent for a chunk: slice.join("\n").
Ordered(s) == \A j \in 1..(Len(s) - 1) : s[j + 1] = s[j] + 1

NewChunk(first, c) ==
    [first |-> first, conn |-> c, begun |-> "pending", sent |-> FALSE, size |-> 0,
     head |-> 0, ordered |-> TRUE, executed |-> 0, failed |-> FALSE, outcome |-> "open"]

\* batchUpdate is called with `data` rows and a callback.
BatchCall(n, bad) ==
    /\ pc[BatchCaller] = "batchUpdate"
    /\ data' = n
    /\ renderFails' = bad
    /\ pc' = [pc EXCEPT ![BatchCaller] = "batch_render"]
    /\ UNCHANGED <<connectionLimit, idle, held, queue, inTx, connector, reply,
                   acquired, released, i, chunks, result,
                   cacheVars, lifeVars, callVars, newsVars>>

\* A batchUpdate that goes on to the loop although a row failed to render.
BatchRenderIgnoresErrors ==
    /\ pc[BatchCaller] = "batch_render"
    /\ i' = 0
    /\ pc' = [pc EXCEPT ![BatchCaller] = "batch_loop"]
    /\ UNCHANGED <<connectionLimit, idle, held, queue, inTx, connector, reply,
                   acquired, released, data, renderFails, chunks, result,
                   cacheVars, lifeVars, callVars, newsVars>>

\* batchUpdate, lines 141-149: `await Promise.all(data.map(...))` settles.  It
\* rejects when the callback or ru.toSQL() of some row throws, and the call ends
\* there; otherwise the loop is entered with i = 0.
BatchRender ==
    /\ pc[BatchCaller] = "batch_render"
    /\ IF renderFails = {}
          THEN /\ i' = 0
               /\ pc' = [pc EXCEPT ![BatchCaller] = "batch_loop"]
          ELSE /\ pc' = [pc EXCEPT ![BatchCaller] = "rejected"]
               /\ UNCHANGED i
    /\ UNCHANGED <<connectionLimit, idle, held, queue, inTx, connector, reply,
                   acquired, released, data, renderFails, chunks, result,
                   cacheVars, lifeVars, callVars, newsVars>>

\* batchUpdate, line 149: the loop test `i <= queries.length`; line 161: the
\* call returns nothing.
BatchLoop ==
    /\ pc[BatchCaller] = "batch_loop"
    /\ IF i <= Len(Queries)
          THEN /\ pc' = [pc EXCEPT ![BatchCaller] = "getTransaction"]
               /\ UNCHANGED result
          ELSE /\ pc' = [pc EXCEPT ![BatchCaller] = "resolved"]
               /\ result' = Undefined
    /\ UNCHANGED <<connectionLimit, idle, held, queue, inTx, connector, reply,
                   acquired, released, data, renderFails, i, chunks,
                   cacheVars, lifeVars, callVars, newsVars>>

\* getTransaction, lines 101-105, called at line 150: a connection is acquired,
\* beginTransaction() is sent and not awaited, and the connection is returned.
GetTransaction ==
    /\ pc[BatchCaller] = "getTransaction"
    /\ \E c \in Idle :
        /\ Acquire(BatchCaller, c)
        /\ connector' = [connector EXCEPT ![BatchCaller] = c]
        /\ Send(c, Command("begin", BatchCaller, FALSE))
        /\ chunks' = Append(chunks, NewChunk(i, c))
    /\ pc' = [pc EXCEPT ![BatchCaller] = "batch_slice"]
    /\ UNCHANGED <<connectionLimit, inTx, reply, released, data, renderFails, i, result,
                   cacheVars, lifeVars, callVars, newsVars>>

\* batchUpdate, lines 151-154: the chunk is cut and sent as one text.
BatchQuery ==
    /\ pc[BatchCaller] = "batch_slice"
    /\ LET slice == Slice(Queries, i, i + updateBatchLimit)
           k == CurrentChunk
       IN  chunks' = [chunks EXCEPT ![k].sent = TRUE,
                                    ![k].size = Len(slice),
                                    ![k].head = IF slice = <<>> THEN 0 ELSE Head(slice),
                                    ![k].ordered = Ordered(slice)]
    /\ Send(connector[BatchCaller], Command("query", BatchCaller, TRUE))
    /\ reply' = [reply EXCEPT ![BatchCaller] = "pending"]
    /\ pc' = [pc EXCEPT ![BatchCaller] = "batch_query"]
    /\ UNCHANGED <<connectionLimit, idle, held, inTx, connector, acquired, released,
                   data, renderFails, i, result,
                   cacheVars, lifeVars, callVars, newsVars>>

\* batchUpdate, lines 154-155 and 157-158: the text's promise settles; commit()
\* is sent on success, rollback() from the catch block on failure.
BatchQueryDone ==
    /\ pc[BatchCaller] = "batch_query"
    /\ reply[BatchCaller] \in {"ok", "err"}
    /\ IF reply[BatchCaller] = "ok"
          THEN /\ Send(connector[BatchCaller], Command("commit", BatchCaller, TRUE))
               /\ pc' = [pc EXCEPT ![BatchCaller] = "batch_commit"]
               /\ UNCHANGED chunks
          ELSE /\ Send(connector[BatchCaller], Command("rollback", BatchCaller, TRUE))
               /\ pc' = [pc EXCEPT ![BatchCaller] = "batch_rollback"]
               /\ chunks' = [chunks EXCEPT ![CurrentChunk].failed = TRUE]
    /\ reply' = [reply EXCEPT ![BatchCaller] = "pending"]
    /\ UNCHANGED <<connectionLimit, idle, held, inTx, connector, acquired, released,
                   data, renderFails, i, result,
                   cacheVars, lifeVars, callVars, newsVars>>

\* batchUpdate, lines 155-160: commit() settles; the next iteration on success,
\* rollback() from the catch block on failure.
BatchCommitDone ==
    /\ pc[BatchCaller] = "batch_commit"
    /\ reply[BatchCaller] \in {"ok", "err"}
    /\ IF reply[BatchCaller] = "ok"
          THEN /\ i' = i + updateBatchLimit
               /\ pc' = [pc EXCEPT ![BatchCaller] = "batch_loop"]
               /\ reply' = [reply EXCEPT ![BatchCaller] = "none"]
               /\ UNCHANGED <<queue, chunks>>
          ELSE /\ Send(connector[BatchCaller], Command("rollback", BatchCaller, TRUE))
               /\ pc' = [pc EXCEPT ![BatchCaller] = "batch_rollback"]
               /\ reply' = [reply EXCEPT ![BatchCaller] = "pending"]
               /\ chunks' = [chunks EXCEPT ![CurrentChunk].failed = TRUE]
               /\ UNCHANGED i
    /\ UNCHANGED <<connectionLimit, idle, held, inTx, connector, acquired, released,
                   data, renderFails, result,
                   cacheVars, lifeVars, callVars, newsVars>>

\* batchUpdate, lines 158-160: rollback() settles; the next iteration on success.
\* When it rejects, the error leaves the catch block and the call rejects.
BatchRollbackDone ==
    /\ pc[BatchCaller] = "batch_rollback"
    /\ reply[BatchCaller] \in {"ok", "err"}
    /\ IF reply[BatchCaller] = "ok"
          THEN /\ i' = i + updateBatchLimit
               /\ pc' = [pc EXCEPT ![BatchCaller] = "batch_loop"]
          ELSE /\ pc' = [pc EXCEPT ![BatchCaller] = "rejected"]
               /\ UNCHANGED i
    /\ reply' = [reply EXCEPT ![BatchCaller] = "none"]
    /\ UNCHANGED <<connectionLimit, idle, held, queue, inTx, connector, acquired,
                   released, data, renderFails, chunks, result,
                   cacheVars, lifeVars, callVars, newsVars>>

\* ------------------------------------------------------------------ Query.getDefinition

\* this.tableDefinitions[database] or this.tableDefinitions[database][table] when
\* nothing was ever assigned there (undefined), and the null that
\* invalidateDefinition assigns.
Absent == [kind |-> "undefined"]

Null == [kind |-> "null"]

\* The object built at lines 226-243 from the introspection query of the call
\* number `fetch`.
Definition(database, table, fetch) ==
    [kind |-> "definition", database |-> database, name |-> table, fetch |-> fetch]

\* No call yet, and the two events of a key other than a stored definition.
NoKey == <<"", "">>

Fresh == [kind |-> "fresh"]

Invalidated == [kind |-> "invalidated"]

\* this.tableDefinitions[database] && this.tableDefinitions[database][table]
Cached(database, table) ==
    /\ tableDefinitions[database] # Absent
    /\ tableDefinitions[database][table].kind = "definition"

\* What this.tableDefinitions holds for a key.
Entry(defs, key) == IF defs[key[1]] = Absent THEN Absent ELSE defs[key[1]][key[2]]

\* The caller that makes the next call.  The callers with no call under way are
\* interchangeable, and the lowest-numbered stands for all.
NextDefCaller ==
    LET free == {k \in 1..NumDefCallers : pc[<<"getDefinition", k>>] = "getDefinition"}
    IN  IF free = {} THEN <<"getDefinition", 0>>
        ELSE <<"getDefinition", CHOOSE k \in free : \A j \in free : k <= j>>

\* getDefinition, lines 219-234.  A cached definition is returned at once.
\* Otherwise this.tableDefinitions[database] is made an object if it is not one,
\* `obj` is built, and this.raw() is called for the zero-row query; raw rejects
\* at line 77 (`this.pool.getConnection()`) when this.pool is null.
GetDefinition(p, database, table) ==
    /\ p = NextDefCaller
    /\ calls < MaxDefCalls
    /\ calls' = calls + 1
    /\ args' = [args EXCEPT ![p] = <<database, table>>]
    /\ prior' = [prior EXCEPT ![p] = lastEvent[<<database, table>>]]
    /\ overtaken' = IF overtaken = <<database, table>> THEN NoKey ELSE overtaken
    /\ IF Cached(database, table)
          THEN /\ defResult' = [defResult EXCEPT ![p] = tableDefinitions[database][table]]
               /\ issued' = [issued EXCEPT ![p] = FALSE]
               /\ pc' = [pc EXCEPT ![p] = "def_returned"]
               /\ UNCHANGED <<tableDefinitions, obj>>
          ELSE /\ tableDefinitions' =
                     IF tableDefinitions[database] = Absent
                       THEN [tableDefinitions EXCEPT ![database] = [t \in Tables |-> Absent]]
                       ELSE tableDefinitions
               /\ obj' = [obj EXCEPT ![p] = Definition(database, table, calls + 1)]
               /\ issued' = [issued EXCEPT ![p] = (pool # Null)]
               /\ pc' = [pc EXCEPT ![p] = IF pool # Null THEN "raw" ELSE "rejected"]
               /\ UNCHANGED defResult
    /\ UNCHANGED <<connectionLimit, idle, held, queue, inTx, connector, reply,
                   acquired, released, batchVars, lastEvent, lifeVars, callVars, newsVars>>

\* getDefinition, lines 234-246: this.raw() settles.  When it rejects, so does
\* the call.  Otherwise the columns are filled in and `obj` is assigned to
\* this.tableDefinitions[database][table], which throws a TypeError when
\* this.tableDefinitions[database] is undefined by then.
GetDefinitionStore(p) ==
    /\ p \in DefCallers
    /\ pc[p] \in {"resolved", "rejected"}
    /\ LET database == args[p][1]
           table == args[p][2]
       IN  IF pc[p] = "rejected" \/ tableDefinitions[database] = Absent
             THEN /\ pc' = [pc EXCEPT ![p] = "def_threw"]
                  /\ UNCHANGED <<tableDefinitions, defResult, lastEvent>>
             ELSE /\ tableDefinitions' = [tableDefinitions EXCEPT ![database][table] = obj[p]]
                  /\ defResult' = [defResult EXCEPT ![p] = obj[p]]
                  /\ lastEvent' = [lastEvent EXCEPT ![args[p]] = obj[p]]
                  /\ pc' = [pc EXCEPT ![p] = "def_returned"]
    /\ UNCHANGED <<connectionLimit, idle, held, queue, inTx, connector, reply,
                   acquired, released, batchVars, calls, args, obj, issued, prior,
                   overtaken, lifeVars, callVars, newsVars>>

\* The call is over: its promise has settled, its locals are gone, and the
\* caller may call again.
GetDefinitionSettled(p) ==
    /\ pc[p] \in {"def_returned", "def_threw"}
    /\ pc' = [pc EXCEPT ![p] = "getDefinition"]
    /\ args' = [args EXCEPT ![p] = NoKey]
    /\ obj' = [obj EXCEPT ![p] = Absent]
    /\ defResult' = [defResult EXCEPT ![p] = Absent]
    /\ issued' = [issued EXCEPT ![p] = FALSE]
    /\ prior' = [prior EXCEPT ![p] = Fresh]
    /\ reply' = [reply EXCEPT ![p] = "none"]
    /\ connector' = [connector EXCEPT ![p] = NoConn]
    /\ acquired' = [acquired EXCEPT ![p] = 0]
    /\ released' = [released EXCEPT ![p] = 0]
    /\ UNCHANGED <<connectionLimit, idle, held, queue, inTx, batchVars,
                   tableDefinitions, calls, lastEvent, overtaken, lifeVars, callVars, newsVars>>

\* The getDefinition call of p for key is suspended in `await this.raw(...)`,
\* or its continuation has not run yet.
Suspended(p, key) ==
    /\ args[p] = key
    /\ pc[p] \in {"raw", "raw_end", "raw_return", "resolved", "rejected"}

\* The call is suspended and the database has answered its introspection query.
Answered(p, key) == Suspended(p, key) /\ reply[p] = "ok"

\* An invalidateDefinition that leaves the definition where it is.
InvalidateDefinitionKeeps(database, table) ==
    /\ lastEvent' = [lastEvent EXCEPT ![<<database, table>>] = Invalidated]
    /\ UNCHANGED <<poolVars, batchVars, tableDefinitions, calls, args, obj,
                   defResult, issued, prior, overtaken, lifeVars, callVars, newsVars>>

\* invalidateDefinition, lines 255-259.
InvalidateDefinition(database, table) ==
    /\ tableDefinitions' =
          IF Cached(database, table)
            THEN [tableDefinitions EXCEPT ![database][table] = Null]
            ELSE tableDefinitions
    /\ lastEvent' = [lastEvent EXCEPT ![<<database, table>>] = Invalidated]
    /\ UNCHANGED <<poolVars, batchVars, calls, args, obj, defResult, issued,
                   prior, overtaken, lifeVars, callVars, newsVars>>

\* invalidateDefinition, lines 255-259, called for the key of p's call while
\* that call is suspended and the database has answered its query.
InvalidateDefinitionInFlight(p) ==
    /\ Answered(p, args[p])
    /\ tableDefinitions' =
          IF Cached(args[p][1], args[p][2])
            THEN [tableDefinitions EXCEPT ![args[p][1]][args[p][2]] = Null]
            ELSE tableDefinitions
    /\ lastEvent' = [lastEvent EXCEPT ![args[p]] = Invalidated]
    /\ overtaken' = args[p]
    /\ UNCHANGED <<poolVars, batchVars, calls, args, obj, defResult, issued,
                   prior, lifeVars, callVars, newsVars>>

\* invalidateAllDefinitions, lines 265-267.
InvalidateAllDefinitions ==
    /\ tableDefinitions' = [d \in Databases |-> Absent]
    /\ lastEvent' = [key \in Keys |-> Invalidated]
    /\ UNCHANGED <<poolVars, batchVars, calls, args, obj, defResult, issued,
                   prior, overtaken, lifeVars, callVars, newsVars>>

\* ------------------------------------------------------------------ values and texts

\* No call was made, or the call has not returned yet.
NoOutput == [kind |-> "pending"]

\* A call ends by returning a value or by throwing an error.
Return(value) == [kind |-> "return", value |-> value]

Throw(error) == [kind |-> "throw", error |-> error]

\* JavaScript values.  A string is the sequence of its characters.
Bool(b) == [kind |-> "boolean", v |-> b]

Num(n) == [kind |-> "number", v |-> n]

Str(s) == [kind |-> "string", v |-> s]

Arr(elements) == [kind |-> "array", v |-> elements]

JsNull == [kind |-> "null", v |-> 0]

\* The strings of up to MaxLen characters over a backslash, the single quote,
\* the double quote and an ordinary character.
MaxLen == 3

Alphabet == {"\\", "'", "\"", "a"}

Strings == UNION {[1..n -> Alphabet] : n \in 0..MaxLen}

\* String.prototype.replace(/ch/g, with): every ch of s replaced by `with`.
RECURSIVE ReplaceAll(_, _, _)
ReplaceAll(s, ch, with) ==
    IF s = <<>> THEN <<>>
    ELSE (IF Head(s) = ch THEN with ELSE <<Head(s)>>) \o ReplaceAll(Tail(s), ch, with)

\* An escapeString that escapes the quotes before the backslashes.
escapeStringQuotesFirst(string) ==
    IF string.kind # "string" THEN Throw("TypeError")
    ELSE LET a == ReplaceAll(string.v, "'", <<"\\", "'">>)
             b == ReplaceAll(a, "\"", <<"\\", "\"">>)
             c == ReplaceAll(b, "\\", <<"\\", "\\">>)
         IN  Return(Str(c))

\* escapeString, lines 387-389: the backslashes are doubled, then each single
\* quote and each double quote gets a backslash.  A value with no replace
\* method makes the call throw a TypeError.
escapeString(string) ==
    IF string.kind # "string" THEN Throw("TypeError")
    ELSE LET a == ReplaceAll(string.v, "\\", <<"\\", "\\">>)
             b == ReplaceAll(a, "'", <<"\\", "'">>)
             c == ReplaceAll(b, "\"", <<"\\", "\"">>)
         IN  Return(Str(c))

\* ------------------------------------------------------------------ dates and numbers as text

\* A native Date and an sb.Date (a subclass of Date) of the instant t.
NativeDate(t) == [kind |-> "Date", v |-> t]

SbDate(t) == [kind |-> "sb.Date", v |-> t]

\* `param instanceof Date`
IsDate(value) == value.kind \in {"Date", "sb.Date"}

Instants ==
    {[y |-> 2021, mo |-> 3, d |-> 7, h |-> 9, mi |-> 5, s |-> 0],
     [y |-> 1999, mo |-> 12, d |-> 31, h |-> 23, mi |-> 59, s |-> 58]}

Digit(k) == <<"0", "1", "2", "3", "4", "5", "6", "7", "8", "9">>[k + 1]

\* The last w decimal digits of n, with leading zeros.
RECURSIVE Pad(_, _)
Pad(n, w) == IF w = 0 THEN <<>> ELSE Pad(n \div 10, w - 1) \o <<Digit(n % 10)>>

\* String(n) for an integer n.
RECURSIVE Decimal(_)
Decimal(n) ==
    IF n < 0 THEN <<"-">> \o Decimal(0 - n)
    ELSE IF n < 10 THEN <<Digit(n)>>
    ELSE Decimal(n \div 10) \o <<Digit(n % 10)>>

\* sb.Date's sqlDate(), sqlTime() and sqlDateTime(): the date-only, time-only
\* and full canonical texts of an instant.
sqlDate(t) == Pad(t.y, 4) \o <<"-">> \o Pad(t.mo, 2) \o <<"-">> \o Pad(t.d, 2)

sqlTime(t) == Pad(t.h, 2) \o <<":">> \o Pad(t.mi, 2) \o <<":">> \o Pad(t.s, 2)

sqlDateTime(t) == sqlDate(t) \o <<" ">> \o sqlTime(t)

Quoted(text) == <<"'">> \o text \o <<"'">>

\* Array.prototype.join(sep) of an array of texts.
RECURSIVE Join(_, _)
Join(texts, sep) ==
    IF texts = <<>> THEN <<>>
    ELSE IF Len(texts) = 1 THEN texts[1]
    ELSE texts[1] \o sep \o Join(Tail(texts), sep)

\* The text join() makes of an element: a string as it is, a number by
\* String(), null as the empty string.
ToText(value) ==
    CASE value.kind = "string" -> value.v
      [] value.kind = "number" -> Decimal(value.v)
      [] OTHER -> <<>>

\* escapeLikeString, lines 396-398.
escapeLikeString(string) ==
    LET escaped == escapeString(string)
    IN  IF escaped.kind = "throw" THEN escaped
        ELSE LET a == ReplaceAll(escaped.value.v, "%", <<"\\", "%">>)
                 b == ReplaceAll(a, "_", <<"\\", "_">>)
             IN  Return(Str(b))

\* convertToSQL, lines 312-350.
convertToSQL(value, targetType) ==
    IF value.kind = "null" THEN Return(Str(<<"N", "U", "L", "L">>))
    ELSE IF targetType = "TINY"
      THEN (IF value.kind # "boolean" THEN Throw("Expected value type: boolean")
            ELSE Return(Str(IF value.v THEN <<"1">> ELSE <<"0">>)))
    ELSE IF targetType = "SET" /\ value.kind = "array"
      THEN LET joined == Join([k \in 1..Len(value.v) |-> ToText(value.v[k])], <<",">>)
           IN  Return(Str(Quoted(escapeString(Str(joined)).value.v)))
    ELSE IF targetType \in {"TIME", "DATE", "DATETIME", "TIMESTAMP"}
      THEN (IF ~IsDate(value) THEN Throw("Expected value type: date")
            ELSE CASE targetType = "TIME" -> Return(Str(Quoted(sqlTime(value.v))))
                   [] targetType = "DATE" -> Return(Str(Quoted(sqlDate(value.v))))
                   [] OTHER -> Return(Str(Quoted(sqlDateTime(value.v)))))
    ELSE IF value.kind = "string"
      THEN Return(Str(Quoted(escapeString(value).value.v)))
    ELSE Return(value)

ExpectedDate == Throw("Expected sb.Date")

UnknownSymbol == Throw("Unknown Recordset replace parameter")

\* parseFormatSymbol, lines 408-487.
parseFormatSymbol(type, param) ==
    CASE type = "b" ->
           IF param.kind # "boolean" THEN Throw("Expected boolean")
           ELSE Return(Str(IF param.v THEN <<"1">> ELSE <<"0">>))
      [] type = "d" ->
           IF ~IsDate(param) THEN ExpectedDate
           ELSE Return(Str(Quoted(sqlDate(param.v))))
      [] type = "dt" ->
           IF ~IsDate(param) THEN ExpectedDate
           ELSE Return(Str(Quoted(sqlDateTime(param.v))))
      [] type = "n" ->
           IF param.kind # "number" THEN Throw("Expected number")
           ELSE Return(Str(Decimal(param.v)))
      [] type = "s" ->
           IF param.kind # "string" THEN Throw("Expected string")
           ELSE Return(Str(Quoted(escapeString(param).value.v)))
      [] type = "t" ->
           IF ~IsDate(param) THEN ExpectedDate
           ELSE Return(Str(sqlTime(param.v)))
      [] type = "s+" ->
           IF param.kind # "array" THEN Throw("Expected Array")
           ELSE IF \E k \in 1..Len(param.v) : escapeString(param.v[k]).kind = "throw"
             THEN Throw("TypeError")
           ELSE LET items == [k \in 1..Len(param.v) |->
                                Quoted(escapeString(param.v[k]).value.v)]
                IN  Return(Str(<<"(">> \o Join(items, <<",">>) \o <<")">>))
      [] type = "n+" ->
           IF param.kind # "array" THEN Throw("Expected Array")
           ELSE LET items == [k \in 1..Len(param.v) |-> ToText(param.v[k])]
                IN  Return(Str(<<"(">> \o Join(items, <<",">>) \o <<")">>))
      [] type = "*like*" ->
           IF param.kind # "string" THEN Throw("Expected string")
           ELSE Return(Str(<<" ", "L", "I", "K", "E", " ", "'", "%">>
                           \o escapeLikeString(param).value.v \o <<"%", "'">>))
      [] OTHER -> UnknownSymbol

\* The tokens formatSymbolRegex (line 12) matches, and one it does not.
RegexTokens ==
    {"s+", "n+", "b", "dt", "d", "n", "p", "s", "t", "like", "*like", "like*", "*like*"}

Tokens == RegexTokens \cup {"x"}

TargetTypes == {"TINY", "SET", "TIME", "DATE", "DATETIME", "TIMESTAMP", "VARCHAR"}

\* The parameters the methods are called with.
Elements == {Str(<<"a">>), Str(<<"'">>), Num(42), JsNull}

Arrays == {Arr(a) : a \in UNION {[1..n -> Elements] : n \in 0..2}}

Params ==
    {Bool(TRUE), Bool(FALSE), Num(0), Num(42), Num(0 - 7), JsNull}
        \cup {Str(s) : s \in Strings \cup {<<"%", "a", "_">>}}
        \cup {NativeDate(t) : t \in Instants} \cup {SbDate(t) : t \in Instants}
        \cup Arrays

\* The most information-schema rows a query for one schema and table matches.
MaxRows == 2

\* What `await this.getRecordset(...)` gives at line 170: the array of the rows
\* that match, one [1] per row of select("1"), or the error of a failed query.
Fetched == {Return([k \in 1..n |-> <<1>>]) : n \in 0..MaxRows} \cup {Throw("fetch")}

\* An isTablePresent that wants one row and no more.
isTablePresentExactlyOne(exists) ==
    IF exists.kind = "throw" THEN exists
    ELSE Return(Bool(Len(exists.value) = 1))

\* isTablePresent, lines 169-178, from the point where the recordset settles.
isTablePresent(exists) ==
    IF exists.kind = "throw" THEN exists
    ELSE Return(Bool(Len(exists.value) # 0))

\* The calls made: a method and its arguments; for isTablePresent also what
\* the database answers.
Calls ==
    {[method |-> "isTablePresent", database |-> key[1], table |-> key[2],
      exists |-> exists] : key \in Keys, exists \in Fetched} \cup
    {[method |-> "escapeString", string |-> Str(s)] : s \in Strings}
        \cup {[method |-> "parseFormatSymbol", type |-> type, param |-> param] :
                 type \in Tokens, param \in Params}
        \cup {[method |-> "convertToSQL", value |-> value, targetType |-> targetType] :
                 value \in Params, targetType \in TargetTypes}

\* The call of parseFormatSymbol returns or throws.
ParseFormatSymbolCall ==
    /\ op = "parseFormatSymbol"
    /\ output = NoOutput
    /\ output' = parseFormatSymbol(input.type, input.param)
    /\ UNCHANGED <<poolVars, batchVars, cacheVars, lifeVars, op, input, newsVars>>

\* The call of convertToSQL returns or throws.
ConvertToSQLCall ==
    /\ op = "convertToSQL"
    /\ output = NoOutput
    /\ output' = convertToSQL(input.value, input.targetType)
    /\ UNCHANGED <<poolVars, batchVars, cacheVars, lifeVars, op, input, newsVars>>

\* The recordset of the isTablePresent call settles, and the call with it.
IsTablePresentCall ==
    /\ op = "isTablePresent"
    /\ output = NoOutput
    /\ output' = isTablePresent(input.exists)
    /\ UNCHANGED <<poolVars, batchVars, cacheVars, lifeVars, op, input, newsVars>>

\* The call of escapeString returns or throws.
EscapeStringCall ==
    /\ op = "escapeString"
    /\ output = NoOutput
    /\ output' = escapeString(input.string)
    /\ UNCHANGED <<poolVars, batchVars, cacheVars, lifeVars, op, input, newsVars>>

\* ------------------------------------------------------------------ Query.singleton, Query.destroy

\* Query.module before the first singleton() call.
NoModule == 0

\* The object Maria.createPool(...) returns.
Pool == [kind |-> "pool"]

\* What a singleton() call gave its caller: nothing (it threw, or was never
\* made), or the instance together with its this.pool at that moment.
NoInstance == [kind |-> "undefined"]

Instance(id, p) == [kind |-> "Query", id |-> id, pool |-> p]

\* Query.singleton(), lines 29-34, and the constructor it runs when
\* Query.module is not set (lines 36-69): the constructor throws when the
\* environment is incomplete, and otherwise starts with an empty
\* tableDefinitions and a pool of connectionLimit connections.
Singleton(p) ==
    /\ pc[p] \in {"idle", "getDefinition"}
    /\ IF module # NoModule
          THEN /\ sb' = [sb EXCEPT ![p] = Instance(module, pool)]
               /\ pc' = [pc EXCEPT ![p] = "getDefinition"]
               /\ UNCHANGED <<module, created, pool, idle, tableDefinitions>>
          ELSE IF ~configured
            THEN /\ sb' = [sb EXCEPT ![p] = NoInstance]
                 /\ UNCHANGED <<module, created, pool, idle, tableDefinitions, pc>>
            ELSE /\ created' = created + 1
                 /\ module' = created + 1
                 /\ tableDefinitions' = [d \in Databases |-> Absent]
                 /\ pool' = Pool
                 /\ idle' = 1..connectionLimit
                 /\ sb' = [sb EXCEPT ![p] = Instance(created + 1, Pool)]
                 /\ pc' = [pc EXCEPT ![p] = "getDefinition"]
    /\ UNCHANGED <<connectionLimit, held, queue, inTx, connector, reply, acquired,
                   released, batchVars, calls, args, obj, defResult, issued, prior,
                   lastEvent, overtaken, configured, callVars, newsVars>>

\* destroy, lines 526-529, called on the instance: invalidateAllDefinitions()
\* and `this.pool = null`.
Destroy ==
    /\ module # NoModule
    /\ tableDefinitions' = [d \in Databases |-> Absent]
    /\ lastEvent' = [key \in Keys |-> Invalidated]
    /\ pool' = Null
    /\ UNCHANGED <<poolVars, batchVars, calls, args, obj, defResult, issued,
                   prior, overtaken, configured, module, created, sb, callVars, newsVars>>

\* ------------------------------------------------------------------ ExtraNews.singleton

\* Concurrent callers of ExtraNews.singleton().
NumNewsCallers == 3

NewsCallers == {<<"ExtraNews.singleton", k>> : k \in 1..NumNewsCallers}

\* Nothing of ExtraNews is constructed, and every caller is about to call.
NewsInit ==
    /\ newsModule = NoModule
    /\ newsCreated = 0
    /\ newsPc = [p \in NewsCallers |-> "singleton"]
    /\ newsInstance = [p \in NewsCallers |-> NoModule]
    /\ newsResult = [p \in NewsCallers |-> NoModule]

\* ExtraNews.singleton(), lines 20-31, up to its first suspension: with
\* ExtraNews.module set the call resolves with it; otherwise `new ExtraNews()`
\* runs the constructor, which starts loadData(), and loadData awaits
\* sb.Query.isTablePresent("data", "Extra_News") (lines 79-82).
NewsSingleton(p) ==
    /\ newsPc[p] = "singleton"
    /\ IF newsModule # NoModule
          THEN /\ newsResult' = [newsResult EXCEPT ![p] = newsModule]
               /\ newsPc' = [newsPc EXCEPT ![p] = "resolved"]
               /\ UNCHANGED <<newsCreated, newsInstance>>
          ELSE /\ newsCreated' = newsCreated + 1
               /\ newsInstance' = [newsInstance EXCEPT ![p] = newsCreated + 1]
               /\ newsPc' = [newsPc EXCEPT ![p] = "isTablePresent"]
               /\ UNCHANGED newsResult
    /\ UNCHANGED <<poolVars, batchVars, cacheVars, lifeVars, callVars, newsModule>>

\* loadData, lines 81-98: isTablePresent settles.  When the table exists the
\* rows are read with getRecordset; when it does not, data is empty and
\* loadData returns the instance; when the query failed, the call rejects.
NewsTablePresent(p, answer) ==
    /\ newsPc[p] = "isTablePresent"
    /\ newsPc' = [newsPc EXCEPT ![p] =
                     CASE answer = "present" -> "getRecordset"
                       [] answer = "absent" -> "constructed"
                       [] OTHER -> "rejected"]
    /\ UNCHANGED <<poolVars, batchVars, cacheVars, lifeVars, callVars, newsModule,
                   newsCreated, newsInstance, newsResult>>

\* loadData, lines 85-93: getRecordset settles, and loadData returns the
\* instance or rejects.
NewsRecordset(p, outcome) ==
    /\ newsPc[p] = "getRecordset"
    /\ newsPc' = [newsPc EXCEPT ![p] = IF outcome = "ok" THEN "constructed"
                                       ELSE "rejected"]
    /\ UNCHANGED <<poolVars, batchVars, cacheVars, lifeVars, callVars, newsModule,
                   newsCreated, newsInstance, newsResult>>

\* singleton, lines 22-24: `await new ExtraNews()` resolves with the instance;
\* it is assigned to ExtraNews.module and ExtraNews.module is returned.
NewsAssign(p) ==
    /\ newsPc[p] = "constructed"
    /\ newsModule' = newsInstance[p]
    /\ newsResult' = [newsResult EXCEPT ![p] = newsInstance[p]]
    /\ newsPc' = [newsPc EXCEPT ![p] = "resolved"]
    /\ UNCHANGED <<poolVars, batchVars, cacheVars, lifeVars, callVars, newsCreated,
                   newsInstance>>

\* ------------------------------------------------------------------ specification

\* The state after the Query singleton is constructed (lines 36-69), with the
\* callers in `active` about to call and the others never calling.
InitWith(active, limits) ==
    /\ connectionLimit \in limits
    /\ idle = 1..connectionLimit
    /\ held = [p \in Procs |-> {}]
    /\ queue = [c \in Conns |-> <<>>]
    /\ inTx = [c \in Conns |-> FALSE]
    /\ pc = [p \in Procs |-> IF p \notin active THEN "idle"
                              ELSE IF p = BatchCaller THEN "batchUpdate"
                              ELSE IF p \in DefCallers THEN "getDefinition" ELSE "raw"]
    /\ connector = [p \in Procs |-> NoConn]
    /\ reply = [p \in Procs |-> "none"]
    /\ acquired = [p \in Procs |-> 0]
    /\ released = [p \in Procs |-> 0]
    /\ data = 0
    /\ renderFails = {}
    /\ i = 0
    /\ chunks = <<>>
    /\ result = NoResult
    /\ tableDefinitions = [d \in Databases |-> Absent]
    /\ calls = 0
    /\ args = [p \in DefCallers |-> NoKey]
    /\ obj = [p \in DefCallers |-> Absent]
    /\ defResult = [p \in DefCallers |-> Absent]
    /\ issued = [p \in DefCallers |-> FALSE]
    /\ prior = [p \in DefCallers |-> Fresh]
    /\ lastEvent = [key \in Keys |-> Fresh]
    /\ overtaken = NoKey
    /\ NewsInit
    /\ configured = TRUE
    /\ module = 1
    /\ created = 1
    /\ pool = Pool
    /\ sb = [p \in Procs |-> Instance(1, Pool)]

\* None of the synchronous methods is called.
NoCall == op = "none" /\ input = <<>> /\ output = NoOutput

\* One call of batchUpdate.
Init == InitWith({BatchCaller}, 1..MaxConnections) /\ NoCall

\* Concurrent callers of raw.
InitRaw == InitWith(RawCallers, 1..MaxConnections) /\ NoCall

NextRaw ==
    \/ \E p \in RawCallers : RawGetConnection(p)
    \/ \E p \in RawCallers : RawEnd(p)
    \/ \E p \in RawCallers : RawReturn(p)
    \/ \E c \in Conns, outcome \in {"ok", "err"} : DriverAnswer(c, outcome)

SpecRaw == InitRaw /\ [][NextRaw]_vars

\* Concurrent callers of getDefinition, beside invalidations, on a pool of one
\* connection.
InitCache == InitWith(DefCallers, {1}) /\ NoCall

NextCache ==
    \/ \E p \in DefCallers : \E key \in Keys : GetDefinition(p, key[1], key[2])
    \/ \E p \in DefCallers : RawGetConnection(p)
    \/ \E p \in DefCallers : RawEnd(p)
    \/ \E p \in DefCallers : RawReturn(p)
    \/ \E c \in Conns, outcome \in {"ok", "err"} : DriverAnswer(c, outcome)
    \/ \E p \in DefCallers : GetDefinitionStore(p)
    \/ \E p \in DefCallers : GetDefinitionSettled(p)
    \/ \E key \in Keys : InvalidateDefinition(key[1], key[2])
    \/ InvalidateAllDefinitions

SpecCache == InitCache /\ [][NextCache]_vars

\* Callers of getDefinition, and invalidateDefinition called for the key of a
\* call that is under way.
NextRefresh ==
    \/ \E p \in DefCallers : \E key \in Keys : GetDefinition(p, key[1], key[2])
    \/ \E p \in DefCallers : RawGetConnection(p)
    \/ \E p \in DefCallers : RawEnd(p)
    \/ \E p \in DefCallers : RawReturn(p)
    \/ \E c \in Conns, outcome \in {"ok", "err"} : DriverAnswer(c, outcome)
    \/ \E p \in DefCallers : GetDefinitionStore(p)
    \/ \E p \in DefCallers : GetDefinitionSettled(p)
    \/ \E p \in DefCallers : InvalidateDefinitionInFlight(p)

SpecRefresh == InitCache /\ [][NextRefresh]_vars

\* The process from its start: nothing is constructed yet, and the callers of
\* getDefinition get the instance from Query.singleton().
InitLife ==
    /\ connectionLimit \in 1..MaxConnections
    /\ configured \in BOOLEAN
    /\ module = NoModule
    /\ created = 0
    /\ pool = Absent
    /\ sb = [p \in Procs |-> NoInstance]
    /\ NoCall
    /\ idle = {}
    /\ held = [p \in Procs |-> {}]
    /\ queue = [c \in Conns |-> <<>>]
    /\ inTx = [c \in Conns |-> FALSE]
    /\ pc = [p \in Procs |-> "idle"]
    /\ connector = [p \in Procs |-> NoConn]
    /\ reply = [p \in Procs |-> "none"]
    /\ acquired = [p \in Procs |-> 0]
    /\ released = [p \in Procs |-> 0]
    /\ data = 0
    /\ renderFails = {}
    /\ i = 0
    /\ chunks = <<>>
    /\ result = NoResult
    /\ tableDefinitions = [d \in Databases |-> Absent]
    /\ calls = 0
    /\ args = [p \in DefCallers |-> NoKey]
    /\ obj = [p \in DefCallers |-> Absent]
    /\ defResult = [p \in DefCallers |-> Absent]
    /\ issued = [p \in DefCallers |-> FALSE]
    /\ prior = [p \in DefCallers |-> Fresh]
    /\ lastEvent = [key \in Keys |-> Fresh]
    /\ overtaken = NoKey
    /\ NewsInit

NextLife ==
    \/ \E p \in DefCallers : Singleton(p)
    \/ Destroy
    \/ \E p \in DefCallers : \E key \in Keys : GetDefinition(p, key[1], key[2])
    \/ \E p \in DefCallers : RawGetConnection(p)
    \/ \E p \in DefCallers : RawEnd(p)
    \/ \E p \in DefCallers : RawReturn(p)
    \/ \E c \in Conns, outcome \in {"ok", "err"} : DriverAnswer(c, outcome)
    \/ \E p \in DefCallers : GetDefinitionStore(p)
    \/ \E p \in DefCallers : GetDefinitionSettled(p)

SpecLife == InitLife /\ [][NextLife]_vars

\* One call of a synchronous method of the constructed instance, with any
\* arguments of the bounded sets.
InitCalls ==
    /\ InitWith({}, {1})
    /\ \E call \in Calls : op = call.method /\ input = call
    /\ output = NoOutput

NextCalls ==
    \/ EscapeStringCall
    \/ ParseFormatSymbolCall
    \/ ConvertToSQLCall
    \/ IsTablePresentCall

SpecCalls == InitCalls /\ [][NextCalls]_vars

Next ==
    \/ \E c \in Conns, outcome \in {"ok", "err"} : DriverAnswer(c, outcome)
    \/ \E n \in RowCounts : \E bad \in RenderFailChoices(n) : BatchCall(n, bad)
    \/ BatchRender
    \/ BatchLoop
    \/ GetTransaction
    \/ BatchQuery
    \/ BatchQueryDone
    \/ BatchCommitDone
    \/ BatchRollbackDone

Spec == Init /\ [][Next]_vars

\* A caller calls raw() once the batchUpdate call is over.
RawCallAfterBatch(p) ==
    /\ pc[p] = "idle"
    /\ pc[BatchCaller] \in {"resolved", "rejected"}
    /\ pc' = [pc EXCEPT ![p] = "raw"]
    /\ UNCHANGED <<connectionLimit, idle, held, queue, inTx, connector, reply,
                   acquired, released, batchVars, cacheVars, lifeVars, callVars, newsVars>>

\* One call of batchUpdate and, after it, one call of raw.  The event loop runs
\* every continuation that is ready, the pool hands out a connection whenever
\* one is idle, and the driver answers every command: a step that stays
\* possible is taken.
NextLive ==
    \/ Next
    \/ RawCallAfterBatch(<<"raw", 1>>)
    \/ RawGetConnection(<<"raw", 1>>)
    \/ RawEnd(<<"raw", 1>>)
    \/ RawReturn(<<"raw", 1>>)

\* Concurrent callers of ExtraNews.singleton() on the constructed Query.
NextNews ==
    \/ \E p \in NewsCallers : NewsSingleton(p)
    \/ \E p \in NewsCallers, answer \in {"present", "absent", "err"} :
          NewsTablePresent(p, answer)
    \/ \E p \in NewsCallers, outcome \in {"ok", "err"} : NewsRecordset(p, outcome)
    \/ \E p \in NewsCallers : NewsAssign(p)

InitNews == InitWith({}, {1}) /\ NoCall

SpecNews == InitNews /\ [][NextNews]_vars

SpecLive == Init /\ [][NextLive]_vars /\ WF_vars(NextLive)

\* ------------------------------------------------------------------ Query.raw: claims

RawFinished(p) == pc[p] \in {"resolved", "rejected"}

\* C1: every call of raw that acquired a connection releases it exactly once,
\* whether its statement succeeded or failed, and once the call has resolved or
\* rejected the caller holds no connection.
C1_RawReleasesExactlyOnce ==
    \A p \in RawCallers :
        /\ released[p] <= acquired[p]
        /\ acquired[p] <= 1
        /\ pc[p] \in {"raw_return", "resolved", "rejected"} =>
              /\ acquired[p] = 1
              /\ released[p] = 1
        /\ RawFinished(p) => held[p] = {}

\* C1, its case: a call whose statement failed has rejected, its connection
\* released once; another call resolved.
C1_Witness ==
    \E p, q \in RawCallers :
        /\ pc[p] = "rejected" /\ reply[p] = "err" /\ released[p] = 1
        /\ pc[q] = "resolved" /\ released[q] = 1

\* C2: a connection in the pool has no statement pending on it, and the
\* statements in flight on one connection are all of one caller.
C2_ExclusiveOwnership ==
    \A c \in Conns :
        /\ c \in idle => queue[c] = <<>>
        /\ \A a, b \in 1..Len(queue[c]) : queue[c][a].owner = queue[c][b].owner

\* ------------------------------------------------------------------ Query.batchUpdate: claims

BatchFinished == pc[BatchCaller] \in {"resolved", "rejected"}

\* The call has left chunk k behind: its try/catch statement is over.
ChunkLeft(k) ==
    \/ k < Len(chunks)
    \/ pc[BatchCaller] \in {"batch_loop", "resolved", "rejected"}

\* The input rows whose statement was sent in chunk k.
ChunkRows(k) ==
    IF chunks[k].sent /\ chunks[k].size > 0
      THEN chunks[k].head..(chunks[k].head + chunks[k].size - 1)
      ELSE {}

\* The statements of a chunk that the database keeps: those executed in a
\* transaction that was committed, or executed with no transaction open.
Durable(ch) ==
    IF ch.begun = "ok"
      THEN (IF ch.outcome = "committed" THEN ch.executed ELSE 0)
      ELSE ch.executed

\* C3: the number of transactions started is ceil(n / 1000), every chunk holds
\* between 1 and 1000 statements, and every statement is in exactly one chunk.
C3_ChunkingExact ==
    /\ Len(chunks) <= CeilDiv(data, updateBatchLimit)
    /\ \A k \in 1..Len(chunks) :
          chunks[k].sent => chunks[k].size \in 1..updateBatchLimit
    /\ pc[BatchCaller] = "resolved" =>
          /\ Len(chunks) = CeilDiv(data, updateBatchLimit)
          /\ \A s \in 1..data :
                Cardinality({k \in 1..Len(chunks) : s \in ChunkRows(k)}) = 1

\* C4: a chunk the call has left behind is committed or rolled back: rolled
\* back with none of its statements kept when its statements or its commit
\* failed, committed with all of its statements kept when nothing failed.
C4_ChunkAtomic ==
    \A k \in 1..Len(chunks) :
        ChunkLeft(k) =>
            /\ chunks[k].outcome \in {"committed", "rolledback"}
            /\ chunks[k].failed =>
                  chunks[k].outcome = "rolledback" /\ Durable(chunks[k]) = 0
            /\ ~chunks[k].failed =>
                  chunks[k].outcome = "committed" /\ Durable(chunks[k]) = chunks[k].size

\* C5: when the call is over every chunk of the input was attempted in its own
\* transaction, whichever chunk failed, and each chunk that did not fail is
\* committed.
C5_ChunksIndependent ==
    (BatchFinished /\ renderFails = {}) =>
        /\ Len(chunks) >= CeilDiv(data, updateBatchLimit)
        /\ \A k \in 1..Len(chunks) :
              ~chunks[k].failed => chunks[k].outcome = "committed"

\* C6: the call resolves with, for each chunk in order, whether the chunk
\* committed or rolled back.
C6_ResultReportsChunks ==
    pc[BatchCaller] = "resolved" =>
        result = [kind |-> "outcomes",
                  chunks |-> [k \in 1..Len(chunks) |-> chunks[k].outcome]]

\* C7: the connection of a chunk is back in the pool once the chunk has been
\* committed or rolled back and left behind, and when the call is over it holds
\* none of the connections it acquired through getTransaction.
C7_TransactionsReleased ==
    /\ \A k \in 1..Len(chunks) :
          (ChunkLeft(k) /\ chunks[k].outcome \in {"committed", "rolledback"}) =>
              /\ chunks[k].conn \notin held[BatchCaller]
              /\ chunks[k].conn \in idle
    /\ BatchFinished => held[BatchCaller] = {}

\* C8: chunk k is cut from the k-th consecutive range of the input, its
\* statements are in the order of their rows, and the transaction of a chunk
\* is started only when the one before it has been committed or rolled back.
C8_ChunksInOrder ==
    \A k \in 1..Len(chunks) :
        /\ chunks[k].first = (k - 1) * updateBatchLimit
        /\ chunks[k].sent =>
              /\ chunks[k].ordered
              /\ chunks[k].size = Min(updateBatchLimit, data - chunks[k].first)
              /\ chunks[k].size > 0 => chunks[k].head = chunks[k].first + 1
        /\ k < Len(chunks) =>
              /\ chunks[k].outcome \in {"committed", "rolledback"}
              /\ queue[chunks[k].conn] = <<>>

\* C8, its case: a third chunk has been sent after the first was committed and
\* the second rolled back.
C8_Witness ==
    /\ Len(chunks) = 3
    /\ chunks[1].outcome = "committed"
    /\ chunks[2].outcome = "rolledback"
    /\ chunks[3].sent /\ chunks[3].size = 500

\* C9: when the rendering of a row fails, the call rejects with no connection
\* acquired, no transaction begun and no chunk sent.
C9_RenderErrorsFailFast ==
    renderFails # {} =>
        /\ pc[BatchCaller] \in {"batch_render", "rejected"}
        /\ chunks = <<>>
        /\ acquired[BatchCaller] = 0
        /\ \A c \in Conns : queue[c] = <<>> /\ ~inTx[c]

\* C9, its case: the last of 2500 rows failed to render and the call rejected.
C9_Witness ==
    /\ pc[BatchCaller] = "rejected"
    /\ data = 2500
    /\ renderFails = {2500}

\* ------------------------------------------------------------------ Query.getDefinition: claims

\* C10, for the calls under way: a call that starts when the last event of its
\* key is a definition stored by an earlier call, with no invalidation since,
\* issues no introspection query and returns that same definition; a call that
\* starts when the last event of its key is an invalidation issues one.
C10_CallsMemoized ==
    \A p \in DefCallers :
        /\ (pc[p] # "getDefinition" /\ prior[p].kind = "definition") =>
              /\ ~issued[p]
              /\ pc[p] = "def_returned"
              /\ defResult[p] = prior[p]
        /\ (pc[p] # "getDefinition" /\ prior[p] = Invalidated) => issued[p]

\* C10, for invalidateDefinition(s, t): what the cache holds for every other
\* key is the same before and after.
C10_OthersKept ==
    \A key \in Keys :
        InvalidateDefinition(key[1], key[2]) =>
            \A other \in Keys \ {key} :
                Entry(tableDefinitions', other) = Entry(tableDefinitions, other)

\* C10: two consecutive getDefinition(s, t) calls with no invalidation between
\* them issue one introspection query, that of the first, and return the same
\* definition; the next call after invalidateDefinition(s, t) or
\* invalidateAllDefinitions issues a new query; invalidateDefinition(s, t)
\* leaves the entries of the other keys as they are.
C10_SchemaCacheMemoizes == [] C10_CallsMemoized /\ [][C10_OthersKept]_vars

\* C10, its case: the second of two consecutive calls has returned the
\* definition that the first fetched and stored, with no query of its own.
C10_Witness ==
    \E p \in DefCallers :
        /\ pc[p] = "def_returned"
        /\ prior[p].kind = "definition"
        /\ ~issued[p]
        /\ defResult[p] = prior[p]
        /\ calls = 2

\* ------------------------------------------------------------------ invalidation during a call: claims

\* What the cache holds for a key is nothing, or one complete definition of
\* that key.
WellFormed(key) ==
    LET e == Entry(tableDefinitions, key)
    IN  \/ e \in {Absent, Null}
        \/ e.kind = "definition" /\ e.database = key[1] /\ e.name = key[2]

\* C11: a getDefinition call whose introspection query succeeded completes
\* without error and returns the definition of its key, whatever invalidation
\* ran while it was suspended, and every key of the cache holds nothing or one
\* complete definition.
C11_InvalidationSafe ==
    /\ \A p \in DefCallers :
          /\ pc[p] = "def_threw" => reply[p] = "err"
          /\ pc[p] = "def_returned" =>
                /\ defResult[p].kind = "definition"
                /\ defResult[p].database = args[p][1]
                /\ defResult[p].name = args[p][2]
    /\ \A key \in Keys : WellFormed(key)

\* ------------------------------------------------------------------ Query.singleton, Query.destroy: claims

\* C12: once destroy() has run, the cache holds no definition and no
\* connection of the pool is open any more, idle in the pool or held by a call.
C12_DestroyReleasesPool ==
    pool = Null =>
        /\ \A key \in Keys : Entry(tableDefinitions, key) \in {Absent, Null}
        /\ idle = {}
        /\ \A p \in Procs : held[p] = {}

\* C13: at most one Query instance and one pool are ever created, every
\* singleton() call that returns gives that one instance, and the instance has
\* a pool when it is returned.
C13_PoolCreatedOnce ==
    /\ created <= 1
    /\ \A p \in Procs :
          sb[p] # NoInstance =>
              /\ sb[p].id = 1
              /\ sb[p].pool = Pool

\* ------------------------------------------------------------------ escaping: claims

\* The string literal parser of the engine: a backslash stands for the
\* character after it.
RECURSIVE Unescape(_)
Unescape(s) ==
    IF s = <<>> THEN <<>>
    ELSE IF Head(s) = "\\" /\ Len(s) >= 2
      THEN <<s[2]>> \o Unescape(SubSeq(s, 3, Len(s)))
      ELSE <<Head(s)>> \o Unescape(Tail(s))

\* The text holds a quote that no backslash escapes.
RECURSIVE BareQuote(_)
BareQuote(s) ==
    IF s = <<>> THEN FALSE
    ELSE IF Head(s) = "\\" THEN Len(s) >= 2 /\ BareQuote(SubSeq(s, 3, Len(s)))
    ELSE Head(s) \in {"'", "\""} \/ BareQuote(Tail(s))

Special(s) == {k \in 1..Len(s) : s[k] \in {"\\", "'", "\""}}

\* C17: escapeString gives each backslash and each quote of a string exactly
\* one backslash; un-escaping its result gives the string back, and no quote
\* of the result is left without its backslash.
C17_EscapeRoundTrip ==
    (op = "escapeString" /\ output # NoOutput /\ input.string.kind = "string") =>
        /\ output.kind = "return"
        /\ Len(output.value.v) =
              Len(input.string.v) + Cardinality(Special(input.string.v))
        /\ Unescape(output.value.v) = input.string.v
        /\ ~BareQuote(output.value.v)

\* C17, its case: a string of a backslash, a single quote and a double quote.
C17_Witness ==
    /\ op = "escapeString"
    /\ input.string = Str(<<"\\", "'", "\"">>)
    /\ output = Return(Str(<<"\\", "\\", "\\", "'", "\\", "\"">>))

\* ------------------------------------------------------------------ Query.parseFormatSymbol: claims

\* The parameter is of the kind the token requires.
Matches(type, param) ==
    CASE type = "b" -> param.kind = "boolean"
      [] type \in {"d", "dt", "t"} -> IsDate(param)
      [] type = "n" -> param.kind = "number"
      [] type \in {"s", "*like*", "like*", "*like"} -> param.kind = "string"
      [] type = "s+" ->
           /\ param.kind = "array"
           /\ \A k \in 1..Len(param.v) : param.v[k].kind = "string"
      [] type = "n+" ->
           /\ param.kind = "array"
           /\ \A k \in 1..Len(param.v) : param.v[k].kind = "number"
      [] OTHER -> FALSE

ParseReturned == op = "parseFormatSymbol" /\ output # NoOutput

\* C14: parseFormatSymbol renders a text for %b, %d, %dt, %t, %n, %s, %*like*,
\* %s+ and %n+ only when the parameter is of the kind the token requires, every
\* element of a list included; on a mismatch it throws.
C14_ParamsValidated ==
    (/\ ParseReturned
     /\ input.type \in {"b", "d", "dt", "t", "n", "s", "*like*", "s+", "n+"}
     /\ ~Matches(input.type, input.param)) => output.kind = "throw"

\* C15: every token the format-symbol regex matches is rendered when its
\* parameter is of the required kind, the documented %like* and %*like among
\* them, and no such token gets the unknown-symbol error.
C15_AllTokensRendered ==
    (ParseReturned /\ input.type \in RegexTokens) =>
        /\ output # UnknownSymbol
        /\ Matches(input.type, input.param) => output.kind = "return"

\* C16: for a date value, %d, %dt and %t render what convertToSQL renders for
\* DATE, DATETIME and TIME, a text between single quotes.
C16_TemporalAsConverter ==
    (ParseReturned /\ input.type \in {"d", "dt", "t"} /\ IsDate(input.param)) =>
        /\ output = convertToSQL(input.param,
                                 CASE input.type = "d" -> "DATE"
                                   [] input.type = "dt" -> "DATETIME"
                                   [] OTHER -> "TIME")
        /\ output.kind = "return"
        /\ Head(output.value.v) = "'"
        /\ output.value.v[Len(output.value.v)] = "'"

\* ------------------------------------------------------------------ Query.isTablePresent: claims

TablePresentReturned ==
    op = "isTablePresent" /\ output # NoOutput /\ input.exists.kind = "return"

\* C18, as first stated: isTablePresent returns true if and only if exactly
\* one information-schema row matches, false for no row and for several rows.
C18_TrueIffOneRow ==
    TablePresentReturned => output = Return(Bool(Len(input.exists.value) = 1))

\* C18: isTablePresent returns true if and only if at least one
\* information-schema row matches the schema and the table name, and false
\* only when no row matches.
C18_TrueIffSomeRow ==
    TablePresentReturned => output = Return(Bool(Len(input.exists.value) >= 1))

\* C18, its case: two rows match, and the call returned true.
C18_Witness ==
    /\ TablePresentReturned
    /\ Len(input.exists.value) = 2
    /\ output = Return(Bool(TRUE))

\* ------------------------------------------------------------------ termination: claims

\* C19: on a pool of connectionLimit connections every batchUpdate call
\* eventually resolves or rejects, whatever the number of its chunks, and a
\* raw() call made after it eventually acquires a connection.
C19_BatchTerminates ==
    /\ <>BatchFinished
    /\ (pc[<<"raw", 1>>] = "raw") ~> (acquired[<<"raw", 1>>] = 1)

\* ------------------------------------------------------------------ invalidation against a refresh: claims

\* C20, for the cache: the definition of a call that invalidateDefinition
\* overtook is not in the cache once that call is over.
C20_StaleNotKept ==
    \A key \in Keys :
        (overtaken = key /\ ~\E p \in DefCallers : Suspended(p, key)) =>
            ~Cached(key[1], key[2])

\* C20, for the next call: the first getDefinition(s, t) call started after
\* such an invalidation issues an introspection query.
C20_NextCallFetches ==
    \A p \in DefCallers, key \in Keys :
        (GetDefinition(p, key[1], key[2]) /\ overtaken = key) => issued'[p]

\* C20: when invalidateDefinition(s, t) runs while a getDefinition(s, t) call
\* is suspended on its introspection query, the definition that call fetched
\* is not left in the cache, and the first getDefinition(s, t) call started
\* after the invalidation issues a new query.
C20_InvalidationNotLost == [] C20_StaleNotKept /\ [][C20_NextCallFetches]_vars

\* ------------------------------------------------------------------ Query.getTransaction: claims

\* C21: when getTransaction has returned the connection of a chunk, the begin
\* step on it has completed successfully; a chunk whose begin step failed has
\* no statement sent, executed or committed, and the call rejects.
C21_TransactionBegun ==
    \A k \in 1..Len(chunks) :
        /\ chunks[k].begun = "ok"
        /\ chunks[k].begun = "err" =>
              /\ ~chunks[k].sent
              /\ chunks[k].executed = 0
              /\ chunks[k].outcome # "committed"
              /\ BatchFinished => pc[BatchCaller] = "rejected"


\* C22: concurrent calls of ExtraNews.singleton() construct ExtraNews at most
\* once, and all the calls that resolve do so with the same instance.
C22_SingleInstance ==
    /\ newsCreated <= 1
    /\ \A p, q \in NewsCallers :
          (newsPc[p] = "resolved" /\ newsPc[q] = "resolved")
              => newsResult[p] = newsResult[q]

====
